---------------------------- MODULE Spec2Model ----------------------------
(***************************************************************************)
(* Model of src/main.py: the two Twilio webhooks of the legal information  *)
(* assistant.                                                              *)
(*                                                                         *)
(*   twilio_voice       greets the caller and records a question.          *)
(*   process_recording  transcribes the recording, asks the LLM, renders   *)
(*                      the answer to MP3, writes the turn document to     *)
(*                      Firestore, uploads the audio to the bucket and     *)
(*                      answers with TwiML.                                *)
(*                                                                         *)
(* Both handlers are `async def` and every collaborator call in them is a  *)
(* blocking call, so one handler runs at a time on the event loop: pc      *)
(* is the position of that one handler.  The handlers hold no try/except:  *)
(* an exception raised by a collaborator leaves the handler at once and    *)
(* the framework answers HTTP 500 with no TwiML.                           *)
(*                                                                         *)
(* Text is a sequence of tokens; the token " " is whitespace.              *)
(***************************************************************************)
EXTENDS Naturals, Sequences, FiniteSets

VARIABLES
    pc,           \* position of the handler: idle, stt, llm, tts, store, upload, done
    req,          \* the request being handled (endpoint and form fields)
    transcript,   \* process_recording: local transcript
    answer_text,  \* process_recording: local answer_text
    audio_bytes,  \* process_recording: local audio_bytes
    doc_id,       \* the uuid of the turn document (line 158), 0 before
    audio_id,     \* the uuid of the audio path (line 162), 0 before
    public_url,   \* process_recording: local public_url
    calls,        \* collaborator calls made by this request, in order: <<name, argument>>
    out,          \* how each collaborator call of this request ended
    response,     \* the HTTP response of the request
    db,           \* Firestore: <<call_sid, turn document id>> -> document
    bucket,       \* Firebase storage: path -> blob
    uuidNext,     \* the next value uuid.uuid4() returns
    turns,        \* process_recording requests received so far
    prev          \* what the previous process_recording request saw and answered

vars == <<pc, req, transcript, answer_text, audio_bytes, doc_id, audio_id,
          public_url, calls, out, response, db, bucket, uuidNext, turns, prev>>

-----------------------------------------------------------------------------
(* Bounds and input sets *)

MaxTurns == 2

CallSids == {"CA1", "CA2"}
Callers == {"None", "+639170000000"}
Callee == "+15550000000"
RecordingUrls == {"https://api.twilio.com/rec/RE1"}

\* What Azure speech recognition can hand back: (reason, text).
Recognitions ==
    { [reason |-> "NoMatch",          text |-> <<>>],
      [reason |-> "RecognizedSpeech", text |-> <<" ">>],
      [reason |-> "RecognizedSpeech", text |-> <<"what", "is", "estafa">>] }

\* What the chat model can hand back as resp.content.
Completions == { <<"general", "information">>, <<" ", "general", "information", " ">> }

-----------------------------------------------------------------------------
(* Pure helpers *)

RECURSIVE LStrip(_)
LStrip(s) == IF s # <<>> /\ Head(s) = " " THEN LStrip(Tail(s)) ELSE s

RECURSIVE RStrip(_)
RStrip(s) ==
    IF s # <<>> /\ s[Len(s)] = " " THEN RStrip(SubSeq(s, 1, Len(s) - 1)) ELSE s

\* str.strip()
Strip(s) == RStrip(LStrip(s))

\* azure_transcribe_from_url, lines 47-50
RecognizedText(result) ==
    IF result.reason = "RecognizedSpeech" THEN result.text ELSE <<>>

\* The comparison without strip().
NoSpeechExact(t) == t = <<>>

\* process_recording, line 139
NoSpeech(t) == Strip(t) = <<>>

\* process_recording, line 140
Apology ==
    << "Sorry, I could not understand the audio. Please try again or consult a licensed attorney." >>

\* lawyer_bot_answer, line 107
AnswerOf(content) == Strip(content)

\* azure_tts_to_mp3, line 79: the audio data of a completed synthesis
Mp3Of(text) == <<"mp3", text>>

NoBytes == <<>>

\* An identifier generator that hands out the previous identifier again.
Uuid4Reused == IF uuidNext > 1 THEN uuidNext - 1 ELSE uuidNext

\* uuid.uuid4(): a value never returned before
Uuid4 == uuidNext

\* process_recording, lines 149-157
CallDoc(r, t, a, now) ==
    [ call_sid            |-> r.CallSid,
      from                |-> r.From,
      to                  |-> r.To,
      question_transcript |-> t,
      answer_text         |-> a,
      created_at          |-> now,
      type                |-> "qa" ]

\* process_recording, line 158
TurnRef(r, id) == <<r.CallSid, id>>

\* process_recording, line 162
AudioPath(r, id) == <<"calls", r.CallSid, id, ".mp3">>

\* upload_bytes_to_firebase, line 85
PublicUrl(path) == <<"https://storage.googleapis.com", path>>

\* DocumentReference.set: create or overwrite
DocSet(store, key, doc) ==
    [k \in DOMAIN store \cup {key} |-> IF k = key THEN doc ELSE store[k]]

\* Blob.upload_from_string: create or overwrite, not yet public
BlobUpload(b, path, data, ctype) ==
    [p \in DOMAIN b \cup {path} |->
        IF p = path THEN [data |-> data, content_type |-> ctype, public |-> FALSE]
        ELSE b[p]]

\* Blob.make_public
BlobMakePublic(b, path) == [b EXCEPT ![path].public = TRUE]

\* <Say>: the text is one token
Say(text) == [verb |-> "Say", text |-> <<text>>]
Play(url) == [verb |-> "Play", url |-> url]

\* A greeting that records with other limits.
VoiceRecordLong ==
    [ verb |-> "Record", action |-> "/twilio/process_recording", method |-> "POST",
      max_length |-> 60, play_beep |-> TRUE, trim |-> "trim-silence", timeout |-> 5 ]

\* twilio_voice, lines 117-124
VoiceRecord ==
    [ verb |-> "Record", action |-> "/twilio/process_recording", method |-> "POST",
      max_length |-> 30, play_beep |-> TRUE, trim |-> "trim-silence", timeout |-> 3 ]

\* process_recording, lines 169-176
TurnRecord ==
    [ verb |-> "Record", action |-> "/twilio/process_recording", method |-> "POST",
      max_length |-> 30, play_beep |-> TRUE, trim |-> "trim-silence", timeout |-> 3 ]

\* twilio_voice, lines 115-126
VoiceTwiML ==
    << Say("Hello. You're connected to the legal information assistant. Please ask your question after the beep. Then pause."),
       VoiceRecord,
       Say("I didn't receive a recording. Goodbye.") >>

\* A reply that forgets the follow-up prompt.
TurnTwiMLNoPrompt(url) ==
    << Play(url),
       TurnRecord,
       Say("Thank you for calling. Goodbye.") >>

\* process_recording, lines 166-178
TurnTwiML(url) ==
    << Play(url),
       Say("You may ask one more short question after the beep."),
       TurnRecord,
       Say("Thank you for calling. Goodbye.") >>

Ok(body) == [status |-> 200, body |-> body]
ServerError == [status |-> 500, body |-> <<>>]
NoResponse == [status |-> 0, body |-> <<>>]

NoOut == [stt |-> "none", llm |-> "none", tts |-> "none", store |-> "none", upload |-> "none"]
NoReq == [endpoint |-> "none", CallSid |-> "none", From |-> "None", To |-> "None",
          RecordingUrl |-> "none"]
NoPrev == [seen |-> FALSE]

-----------------------------------------------------------------------------
Init ==
    /\ pc = "idle"
    /\ req = NoReq
    /\ transcript = <<>>
    /\ answer_text = <<>>
    /\ audio_bytes = NoBytes
    /\ doc_id = 0
    /\ audio_id = 0
    /\ public_url = <<>>
    /\ calls = <<>>
    /\ out = NoOut
    /\ response = NoResponse
    /\ db = <<>>
    /\ bucket = <<>>
    /\ uuidNext = 1
    /\ turns = 0
    /\ prev = NoPrev

Frame ==
    /\ transcript' = <<>>
    /\ answer_text' = <<>>
    /\ audio_bytes' = NoBytes
    /\ doc_id' = 0
    /\ audio_id' = 0
    /\ public_url' = <<>>
    /\ calls' = <<>>
    /\ out' = NoOut
    /\ response' = NoResponse

\* A handler that caught the exception and ran the stage again.
RaiseRetry(s) ==
    /\ pc' = s
    /\ out' = [out EXCEPT ![s] = "raise"]
    /\ UNCHANGED response

\* An exception raised in stage s leaves the handler: no except clause catches it.
Raise(s) ==
    /\ pc' = "done"
    /\ out' = [out EXCEPT ![s] = "raise"]
    /\ response' = ServerError

\* POST /twilio/voice: the whole of twilio_voice
TwilioVoice ==
    /\ pc = "idle"
    /\ \E c \in CallSids, f \in Callers :
          req' = [endpoint |-> "voice", CallSid |-> c, From |-> f, To |-> Callee,
                  RecordingUrl |-> "none"]
    /\ pc' = "done"
    /\ response' = Ok(VoiceTwiML)
    /\ UNCHANGED <<transcript, answer_text, audio_bytes, doc_id, audio_id, public_url,
                   calls, out, db, bucket, uuidNext, turns, prev>>

\* POST /twilio/process_recording arrives
ProcessRecording ==
    /\ pc = "idle"
    /\ turns < MaxTurns
    /\ \E c \in CallSids, f \in Callers, u \in RecordingUrls :
          req' = [endpoint |-> "process_recording", CallSid |-> c, From |-> f,
                  To |-> Callee, RecordingUrl |-> u]
    /\ pc' = "stt"
    /\ turns' = turns + 1
    /\ UNCHANGED <<transcript, answer_text, audio_bytes, doc_id, audio_id, public_url,
                   calls, out, response, db, bucket, uuidNext, prev>>

\* line 136: azure_transcribe_from_url(RecordingUrl + ".wav")
Transcribe ==
    /\ pc = "stt"
    /\ calls' = Append(calls, <<"stt", <<req.RecordingUrl, ".wav">> >>)
    /\ \/ \* requests.get times out (line 35)
          /\ Raise("stt")
          /\ UNCHANGED <<transcript, uuidNext>>
       \/ \E result \in Recognitions :
             /\ transcript' = RecognizedText(result)
             /\ uuidNext' = Uuid4 + 1          \* the temporary file name, line 37
             /\ out' = [out EXCEPT !.stt = "ok"]
             /\ pc' = "llm"
             /\ UNCHANGED response
    /\ UNCHANGED <<req, answer_text, audio_bytes, doc_id, audio_id, public_url,
                   db, bucket, turns, prev>>

\* lines 139-142
Answer ==
    /\ pc = "llm"
    /\ \/ /\ NoSpeech(transcript)
          /\ answer_text' = Apology
          /\ pc' = "tts"
          /\ UNCHANGED <<calls, out, response>>
       \/ /\ ~NoSpeech(transcript)
          /\ calls' = Append(calls, <<"llm", transcript>>)
          /\ \/ /\ Raise("llm")
                /\ UNCHANGED answer_text
             \/ \E content \in Completions :
                   /\ answer_text' = AnswerOf(content)
                   /\ out' = [out EXCEPT !.llm = "ok"]
                   /\ pc' = "tts"
                   /\ UNCHANGED response
    /\ UNCHANGED <<req, transcript, audio_bytes, doc_id, audio_id, public_url,
                   db, bucket, uuidNext, turns, prev>>

\* line 145: azure_tts_to_mp3(answer_text)
Synthesize ==
    /\ pc = "tts"
    /\ calls' = Append(calls, <<"tts", answer_text>>)
    /\ \/ /\ Raise("tts")
          /\ UNCHANGED audio_bytes
       \/ \* synthesis completed
          /\ audio_bytes' = Mp3Of(answer_text)
          /\ out' = [out EXCEPT !.tts = "ok"]
          /\ pc' = "store"
          /\ UNCHANGED response
       \/ \* synthesis canceled: the result is returned unchecked, its audio data empty
          /\ audio_bytes' = NoBytes
          /\ out' = [out EXCEPT !.tts = "canceled"]
          /\ pc' = "store"
          /\ UNCHANGED response
    /\ UNCHANGED <<req, transcript, answer_text, doc_id, audio_id, public_url,
                   db, bucket, uuidNext, turns, prev>>

\* lines 148-159
StoreTurn ==
    /\ pc = "store"
    /\ doc_id' = Uuid4
    /\ uuidNext' = Uuid4 + 1
    /\ calls' = Append(calls, <<"store", TurnRef(req, Uuid4)>>)
    /\ \/ /\ Raise("store")
          /\ UNCHANGED db
       \/ /\ db' = DocSet(db, TurnRef(req, Uuid4),
                          CallDoc(req, transcript, answer_text, turns))
          /\ out' = [out EXCEPT !.store = "ok"]
          /\ pc' = "upload"
          /\ UNCHANGED response
    /\ UNCHANGED <<req, transcript, answer_text, audio_bytes, audio_id, public_url,
                   bucket, turns, prev>>

\* lines 162-178
UploadAndRespond ==
    /\ pc = "upload"
    /\ audio_id' = Uuid4
    /\ uuidNext' = Uuid4 + 1
    /\ calls' = Append(calls, <<"upload", AudioPath(req, Uuid4)>>)
    /\ LET path == AudioPath(req, Uuid4)
           uploaded == BlobUpload(bucket, path, audio_bytes, "audio/mpeg")
       IN  \/ \* upload_from_string raises
              /\ Raise("upload")
              /\ UNCHANGED <<bucket, public_url>>
           \/ \* make_public raises
              /\ Raise("upload")
              /\ bucket' = uploaded
              /\ UNCHANGED public_url
           \/ /\ bucket' = BlobMakePublic(uploaded, path)
              /\ public_url' = PublicUrl(path)
              /\ out' = [out EXCEPT !.upload = "ok"]
              /\ response' = Ok(TurnTwiML(PublicUrl(path)))
              /\ pc' = "done"
    /\ UNCHANGED <<req, transcript, answer_text, audio_bytes, doc_id, db, turns, prev>>

Kinds(body) == [i \in 1..Len(body) |-> body[i].verb]

\* What a finished process_recording request leaves for comparison with the next.
Summary ==
    [ seen |-> TRUE, transcript |-> transcript, answer_text |-> answer_text,
      audio_bytes |-> audio_bytes, out |-> out, status |-> response.status,
      kinds |-> Kinds(response.body) ]

\* The response is sent and the handler's frame is gone.
Return ==
    /\ pc = "done"
    /\ pc' = "idle"
    /\ req' = NoReq
    /\ prev' = IF req.endpoint = "process_recording" THEN Summary ELSE prev
    /\ Frame
    /\ UNCHANGED <<db, bucket, uuidNext, turns>>

Next ==
    \/ TwilioVoice
    \/ ProcessRecording
    \/ Transcribe
    \/ Answer
    \/ Synthesize
    \/ StoreTurn
    \/ UploadAndRespond
    \/ Return

Spec == Init /\ [][Next]_vars

-----------------------------------------------------------------------------
(* Vocabulary of the properties *)

Stages == {"stt", "llm", "tts", "store", "upload"}

\* How many times the request called collaborator s.
Count(s) == Cardinality({i \in 1..Len(calls) : calls[i][1] = s})

\* The position of the first call of s, 0 if there is none.
FirstCall(s) ==
    IF Count(s) = 0 THEN 0
    ELSE CHOOSE i \in 1..Len(calls) :
            calls[i][1] = s /\ \A j \in 1..(i - 1) : calls[j][1] # s

InTurn == req.endpoint = "process_recording"
Finished == pc = "done" /\ InTurn
Greeted == pc = "done" /\ req.endpoint = "voice"

Blank(t) == \A i \in 1..Len(t) : t[i] = " "

Stored == out.store = "ok"
TurnDoc == db[TurnRef(req, doc_id)]

IsPlay(ins) == ins.verb = "Play"
IsRecord(ins) == ins.verb = "Record"
IsSayAnswer(ins) == ins.verb = "Say" /\ ins.text = answer_text
IsLead(ins) == IsPlay(ins) \/ IsSayAnswer(ins)
LeadPositions(body) == {i \in 1..Len(body) : IsLead(body[i])}
RecordPositions(body) == {i \in 1..Len(body) : IsRecord(body[i])}

GreetingText ==
    "Hello. You're connected to the legal information assistant. Please ask your question after the beep. Then pause."
FollowUpText == "You may ask one more short question after the beep."
NoRecordingText == "I didn't receive a recording. Goodbye."
GoodbyeText == "Thank you for calling. Goodbye."

\* Record: at most 30 s, beep, silence trimmed, 3 s of silence, then the turn endpoint.
ExpectedRecord ==
    [ verb |-> "Record", action |-> "/twilio/process_recording", method |-> "POST",
      max_length |-> 30, play_beep |-> TRUE, trim |-> "trim-silence", timeout |-> 3 ]

-----------------------------------------------------------------------------
\* C1 (as claimed): whatever the stages do, a finished process_recording request
\* answers with a non-empty instruction list holding exactly one of Play(url) or
\* Say(answer text), followed by exactly one Record.
C1_AlwaysInstructions ==
    Finished =>
        /\ response.status = 200
        /\ response.body # <<>>
        /\ Cardinality(LeadPositions(response.body)) = 1
        /\ Cardinality(RecordPositions(response.body)) = 1
        /\ \A i \in LeadPositions(response.body) :
              \A j \in RecordPositions(response.body) : i < j

\* C2 (as claimed): every finished process_recording request has written its turn
\* exactly once; after a failed transcription the turn stored has an empty
\* transcript, the apology as answer and status stt_failed.
C2_TurnAlwaysStored ==
    Finished =>
        /\ Count("store") = 1
        /\ Stored
        /\ out.stt = "raise" =>
              /\ TurnDoc.question_transcript = <<>>
              /\ TurnDoc.answer_text = Apology
              /\ "status" \in DOMAIN TurnDoc
              /\ TurnDoc.status = "stt_failed"

\* The two requests saw the same transcription, answer and synthesis, and no
\* different upload outcome (a request whose write raised never reached the upload).
SameUpstream ==
    /\ prev.seen
    /\ prev.transcript = transcript
    /\ prev.answer_text = answer_text
    /\ prev.audio_bytes = audio_bytes
    /\ prev.out.stt = out.stt
    /\ prev.out.llm = out.llm
    /\ prev.out.tts = out.tts
    /\ \/ prev.out.upload = out.upload
       \/ prev.out.store = "raise"
       \/ out.store = "raise"

\* C3 (as claimed): two process_recording requests with the same upstream outcomes
\* get the same instructions whether or not the turn write succeeded.
C3_ResponseIgnoresStoreFailure ==
    (Finished /\ out.store # "none" /\ prev.seen /\ prev.out.store # "none" /\ SameUpstream) =>
        /\ response.status = prev.status
        /\ Kinds(response.body) = prev.kinds

\* C4 (as claimed): when synthesis fails after the answer was generated, the reply
\* speaks the answer text in place of Play, the turn has status tts_failed, nothing
\* is uploaded and the publisher is not called.
C4_SpeakWhenSynthesisFails ==
    (Finished /\ out.llm = "ok" /\ out.tts \in {"raise", "canceled"}) =>
        /\ response.status = 200
        /\ response.body # <<>>
        /\ response.body[1] = [verb |-> "Say", text |-> answer_text]
        /\ Count("upload") = 0
        /\ Stored
        /\ "status" \in DOMAIN TurnDoc
        /\ TurnDoc.status = "tts_failed"

C6_AppendOnly ==
    [][ /\ \A k \in DOMAIN db : k \in DOMAIN db' /\ db'[k] = db[k]
        /\ (pc = "store" /\ out'.store = "ok") =>
              /\ DOMAIN db' # DOMAIN db
              /\ Cardinality(DOMAIN db') = Cardinality(DOMAIN db) + 1 ]_vars

C6_Witness ==
    /\ Finished
    /\ Stored
    /\ \E k \in DOMAIN db :
          /\ k # TurnRef(req, doc_id)
          /\ k[1] = req.CallSid
          /\ db[k].created_at < TurnDoc.created_at

\* Every stage of the request succeeded and the transcript is not empty.
AllSucceeded ==
    /\ Finished
    /\ transcript # <<>>
    /\ out.stt = "ok"
    /\ out.llm \in {"ok", "none"}
    /\ out.tts = "ok"
    /\ out.store = "ok"
    /\ out.upload = "ok"

C8_GreetingThenRecordOnly ==
    Greeted =>
        /\ calls = <<>>
        /\ response =
              [ status |-> 200,
                body |-> << [verb |-> "Say", text |-> <<GreetingText>>], ExpectedRecord >> ]

\* C8 (amended): the greeting request always succeeds, calls no collaborator, and
\* answers with Say(greeting), Record(30 s, beep, silence trimmed, 3 s timeout,
\* next action the turn endpoint) and a closing Say for the case that no recording
\* arrives; the one Record of a process_recording reply has the same parameters.
C8_GreetingRecordGoodbye ==
    /\ Greeted =>
          /\ calls = <<>>
          /\ out = NoOut
          /\ response =
                [ status |-> 200,
                  body |-> << [verb |-> "Say", text |-> <<GreetingText>>],
                              ExpectedRecord,
                              [verb |-> "Say", text |-> <<NoRecordingText>>] >> ]
    /\ (Finished /\ response.status = 200) =>
          /\ Cardinality(RecordPositions(response.body)) = 1
          /\ \A i \in RecordPositions(response.body) : response.body[i] = ExpectedRecord

C8_Witness ==
    /\ Greeted
    /\ response.status = 200
    /\ Len(response.body) = 3
    /\ turns > 0

\* C9 (as claimed): when synthesis and upload succeed, the upload was made before
\* the turn was written, the turn document holds the audio URL, and the audio path
\* carries the turn document's identifier.
C9_TurnReferencesAudio ==
    (Finished /\ out.tts = "ok" /\ out.upload = "ok") =>
        /\ FirstCall("upload") < FirstCall("store")
        /\ Stored
        /\ "audio_url" \in DOMAIN TurnDoc
        /\ TurnDoc.audio_url = public_url
        /\ audio_id = doc_id

\* C10: within one request no collaborator is called twice.
C10_NoRetry == \A s \in Stages : Count(s) <= 1

C10_Witness ==
    /\ Finished
    /\ \E s \in Stages : out[s] = "raise"
    /\ Len(calls) >= 3

=============================================================================
